---- MODULE Spec2Model ----
(***************************************************************************)
(* Model of SmartFilingSystem (src/smart_filing_system.py): an organizer   *)
(* that groups the files of a source tree by lower-cased extension and     *)
(* copies or moves each group into a target directory under sequentially   *)
(* numbered names.                                                         *)
(*                                                                         *)
(* Strings are sequences of one-character strings, compared by code point  *)
(* as Python compares str.  A path is the sequence of its components, as   *)
(* pathlib keeps it; str(path) joins the components with "/".  The file    *)
(* system is a function from the existing paths to their entries.          *)
(***************************************************************************)
EXTENDS Integers, Sequences, FiniteSets, TLC

(***************************************************************************)
(* Strings                                                                 *)
(***************************************************************************)
Code(c) ==
    CASE c = "-" -> 45 [] c = "." -> 46 [] c = "/" -> 47
      [] c = "0" -> 48 [] c = "1" -> 49 [] c = "2" -> 50 [] c = "3" -> 51
      [] c = "4" -> 52 [] c = "5" -> 53 [] c = "6" -> 54 [] c = "7" -> 55
      [] c = "8" -> 56 [] c = "9" -> 57 [] c = ":" -> 58
      [] c = "G" -> 71 [] c = "J" -> 74 [] c = "P" -> 80
      [] c = "_" -> 95
      [] c = "a" -> 97 [] c = "b" -> 98 [] c = "c" -> 99 [] c = "d" -> 100
      [] c = "e" -> 101 [] c = "f" -> 102 [] c = "g" -> 103 [] c = "i" -> 105 [] c = "j" -> 106
      [] c = "k" -> 107 [] c = "l" -> 108 [] c = "m" -> 109 [] c = "p" -> 112 [] c = "s" -> 115
      [] c = "t" -> 116 [] c = "x" -> 120 [] c = "y" -> 121
      [] c = "{" -> 123 [] c = "}" -> 125

\* str.__lt__: lexicographic by code point, a proper prefix is smaller
RECURSIVE StrLess(_, _)
StrLess(a, b) ==
    IF b = <<>> THEN FALSE
    ELSE IF a = <<>> THEN TRUE
    ELSE IF Code(Head(a)) # Code(Head(b)) THEN Code(Head(a)) < Code(Head(b))
    ELSE StrLess(Tail(a), Tail(b))

\* str.lower() on one character
LowerChar(c) ==
    CASE c = "G" -> "g" [] c = "J" -> "j" [] c = "P" -> "p" [] OTHER -> c

\* str.lower()
Lower(str) == [k \in 1..Len(str) |-> LowerChar(str[k])]

\* str.lstrip('.'): drops every leading dot
RECURSIVE LStripDots(_)
LStripDots(str) ==
    IF str # <<>> /\ Head(str) = "." THEN LStripDots(Tail(str)) ELSE str

\* str.rfind('.'), 1-based; 0 when there is no dot
RECURSIVE RFindDot(_)
RFindDot(str) ==
    IF str = <<>> THEN 0
    ELSE IF str[Len(str)] = "." THEN Len(str)
    ELSE RFindDot(SubSeq(str, 1, Len(str) - 1))

\* PurePath.suffix: the last dot and what follows it, unless that dot is
\* the first or the last character of the name
Suffix(name) ==
    LET d == RFindDot(name)
    IN  IF 1 < d /\ d < Len(name) THEN SubSeq(name, d, Len(name)) ELSE <<>>

\* str(n) for n >= 0
Digit(k) == CASE k = 0 -> "0" [] k = 1 -> "1" [] k = 2 -> "2" [] k = 3 -> "3"
              [] k = 4 -> "4" [] k = 5 -> "5" [] k = 6 -> "6" [] k = 7 -> "7"
              [] k = 8 -> "8" [] k = 9 -> "9"

RECURSIVE Dec(_)
Dec(n) == IF n < 10 THEN <<Digit(n)>> ELSE Dec(n \div 10) \o <<Digit(n % 10)>>

\* format(n, spec) for the format specs "", "d" and "02d"
FormatSpecKnown(spec) == spec \in {<<>>, <<"d">>, <<"0", "2", "d">>}

FormatInt(n, spec) ==
    IF spec = <<"0", "2", "d">> /\ n < 10 THEN <<"0">> \o Dec(n) ELSE Dec(n)

\* first position >= k of character c in str, 0 when absent
RECURSIVE Find(_, _, _)
Find(str, c, k) ==
    IF k > Len(str) THEN 0
    ELSE IF str[k] = c THEN k
    ELSE Find(str, c, k + 1)

\* The replacement field of pat that opens at position k: where it closes
\* (0 when it does not), its field name and its format spec.
Field(pat, k) ==
    LET close == Find(pat, "}", k + 1)
        body  == SubSeq(pat, k + 1, close - 1)
        colon == Find(body, ":", 1)
    IN  [close |-> close,
         name  |-> IF colon = 0 THEN body ELSE SubSeq(body, 1, colon - 1),
         spec  |-> IF colon = 0 THEN <<>> ELSE SubSeq(body, colon + 1, Len(body))]

\* str.format(n) with the single positional argument n raises, scanning pat
\* from position k with `auto` automatic fields already seen: a single "{"
\* or "}" (ValueError), a second automatic field or an index other than 0
\* (IndexError), a named field (KeyError), an unknown format spec.
RECURSIVE FormatRaisesFrom(_, _, _)
FormatRaisesFrom(pat, k, auto) ==
    IF k > Len(pat) THEN FALSE
    ELSE IF k < Len(pat) /\ pat[k] \in {"{", "}"} /\ pat[k + 1] = pat[k]
        THEN FormatRaisesFrom(pat, k + 2, auto)
    ELSE IF pat[k] = "}" THEN TRUE
    ELSE IF pat[k] = "{" THEN
        LET f == Field(pat, k)
        IN  \/ f.close = 0
            \/ f.name \notin {<<>>, <<"0">>}
            \/ f.name = <<>> /\ auto > 0
            \/ ~FormatSpecKnown(f.spec)
            \/ FormatRaisesFrom(pat, f.close + 1,
                                IF f.name = <<>> THEN auto + 1 ELSE auto)
    ELSE FormatRaisesFrom(pat, k + 1, auto)

FormatRaises(pat) == FormatRaisesFrom(pat, 1, 0)

\* The value of str.format(n) when it does not raise: literal text is copied,
\* "{{" and "}}" stand for one brace, a field is replaced by the number.
RECURSIVE FormatFrom(_, _, _)
FormatFrom(pat, n, k) ==
    IF k > Len(pat) THEN <<>>
    ELSE IF k < Len(pat) /\ pat[k] \in {"{", "}"} /\ pat[k + 1] = pat[k]
        THEN <<pat[k]>> \o FormatFrom(pat, n, k + 2)
    ELSE IF pat[k] = "{" THEN
        LET f == Field(pat, k)
        IN  FormatInt(n, f.spec) \o FormatFrom(pat, n, f.close + 1)
    ELSE <<pat[k]>> \o FormatFrom(pat, n, k + 1)

\* pattern.format(i)
Format(pat, n) == FormatFrom(pat, n, 1)

(***************************************************************************)
(* Paths                                                                   *)
(***************************************************************************)
\* Path.name
Name(p) == p[Len(p)]

\* Path.parent
Parent(p) == SubSeq(p, 1, Len(p) - 1)

\* Path.__truediv__ with a single component
Join(dir, name) == Append(dir, name)

\* str(path)
RECURSIVE PathStr(_)
PathStr(p) ==
    IF Len(p) = 1 THEN p[1]
    ELSE PathStr(Parent(p)) \o <<"/">> \o Name(p)

\* PurePath.__lt__: the component sequences compared as Python lists
RECURSIVE PathLess(_, _)
PathLess(p, q) ==
    IF q = <<>> THEN FALSE
    ELSE IF p = <<>> THEN TRUE
    ELSE IF Head(p) # Head(q) THEN StrLess(Head(p), Head(q))
    ELSE PathLess(Tail(p), Tail(q))

(***************************************************************************)
(* The names, patterns and trees the model ranges over                     *)
(***************************************************************************)
\* the largest number of entries placed under the source root
MaxFiles == 3

SourceRoot  == << <<"s">> >>
SubFolder   == << <<"s">>, <<"a">> >>
MissingRoot == << <<"m">> >>

\* s/a.txt, s/a/x.txt, s/b.JPG, s/a/y.jpg, s/file_01.txt
FileA   == Join(SourceRoot, <<"a", ".", "t", "x", "t">>)
FileX   == Join(SubFolder,  <<"x", ".", "t", "x", "t">>)
FileB   == Join(SourceRoot, <<"b", ".", "J", "P", "G">>)
FileY   == Join(SubFolder,  <<"y", ".", "j", "p", "g">>)
FileF   == Join(SourceRoot,
                <<"f", "i", "l", "e", "_", "0", "1", ".", "t", "x", "t">>)
\* s/c.txt, an entry that is neither a regular file nor a directory
Special == Join(SourceRoot, <<"c", ".", "t", "x", "t">>)

CandidateFiles == {FileA, FileX, FileB, FileY, FileF}
Candidates     == CandidateFiles \cup {Special}

\* the target is apart from the source, the source root, or inside it
Targets == {<< <<"t">> >>, SourceRoot, SubFolder}

\* "file_{:02d}", "img_{:02d}", "file_01" (no placeholder), "{" (does not
\* format)
PatFile  == <<"f", "i", "l", "e", "_", "{", ":", "0", "2", "d", "}">>
PatImage == <<"i", "m", "g", "_", "{", ":", "0", "2", "d", "}">>
PatConst == <<"f", "i", "l", "e", "_", "0", "1">>
PatBad   == <<"{">>
Patterns == {PatFile, PatImage, PatConst, PatBad}

\* "jpg", ".JPG", "..jpg"
ExtensionArgs == {<<"j", "p", "g">>, <<".", "J", "P", "G">>,
                  <<".", ".", "j", "p", "g">>}

Layouts == {L \in SUBSET Candidates : Cardinality(L) <= MaxFiles}

(***************************************************************************)
(* The file system                                                         *)
(***************************************************************************)
DirEntry        == [kind |-> "dir", data |-> <<>>]
FileEntry(data) == [kind |-> "file", data |-> data]
OtherEntry      == [kind |-> "other", data |-> <<>>]

\* Path.exists(), Path.is_file(), Path.is_dir()
Exists(f, p) == p \in DOMAIN f
IsFile(f, p) == p \in DOMAIN f /\ f[p].kind = "file"
IsDir(f, p)  == p \in DOMAIN f /\ f[p].kind = "dir"

\* f with the entry e at path p
Put(f, p, e) == [q \in DOMAIN f \cup {p} |-> IF q = p THEN e ELSE f[q]]

\* f without path p
Remove(f, p) == [q \in DOMAIN f \ {p} |-> f[q]]

\* Path.mkdir(parents=True) when the path does not exist
RECURSIVE MkdirParents(_, _)
MkdirParents(f, p) ==
    IF p = <<>> \/ Exists(f, p) THEN f
    ELSE Put(MkdirParents(f, Parent(p)), p, DirEntry)

\* The tree that holds the entries of layout L: the source root and its
\* subfolder are directories, every regular file holds its own content,
\* named after its original path.
Tree(L) ==
    [p \in {SourceRoot, SubFolder} \cup L |->
        IF p \in {SourceRoot, SubFolder} THEN DirEntry
        ELSE IF p = Special THEN OtherEntry
        ELSE FileEntry(p)]

\* The paths of set S in ascending order
RECURSIVE Ascending(_)
Ascending(S) ==
    IF S = {} THEN <<>>
    ELSE LET least == CHOOSE p \in S : \A q \in S \ {p} : PathLess(p, q)
         IN  <<least>> \o Ascending(S \ {least})

Reverse(seq) == [k \in 1..Len(seq) |-> seq[Len(seq) + 1 - k]]

\* Path.iterdir(): the children of dir, in the order the directory listing
\* yields them (ascending or descending by name)
IterDir(f, dir, order) ==
    LET children == {p \in DOMAIN f : Len(p) = Len(dir) + 1 /\ Parent(p) = dir}
    IN  IF order = "asc" THEN Ascending(children)
        ELSE Reverse(Ascending(children))

(***************************************************************************)
(* Discovery: _get_files_by_extension                                      *)
(***************************************************************************)
\* A dict is the sequence of its items in insertion order
DictIndex(d, key) ==
    IF \E k \in 1..Len(d) : d[k].ext = key
    THEN CHOOSE k \in 1..Len(d) : d[k].ext = key
    ELSE 0

\* a variant that assigns the list where the code extends it
DictExtendReplacing(d, key, files) ==
    LET k == DictIndex(d, key)
    IN  IF k = 0 THEN Append(d, [ext |-> key, files |-> files])
        ELSE [d EXCEPT ![k].files = files]

\* if ext not in d: d[ext] = []   followed by   d[ext].extend(files)
DictExtend(d, key, files) ==
    LET k == DictIndex(d, key)
    IN  IF k = 0 THEN Append(d, [ext |-> key, files |-> files])
        ELSE [d EXCEPT ![k].files = @ \o files]

\* item.suffix.lstrip('.').lower()
ExtensionOf(item) == Lower(LStripDots(Suffix(Name(item))))

\* the first loop: the regular files of the listing, grouped
RECURSIVE ScanFiles(_, _, _)
ScanFiles(f, listing, d) ==
    IF listing = <<>> THEN d
    ELSE LET item == Head(listing)
         IN  ScanFiles(f, Tail(listing),
                 IF IsFile(f, item)
                 THEN DictExtend(d, ExtensionOf(item), <<item>>)
                 ELSE d)

\* for ext, files in subfolders_files.items(): merge into d
RECURSIVE DictMerge(_, _)
DictMerge(d, sub) ==
    IF sub = <<>> THEN d
    ELSE DictMerge(DictExtend(d, Head(sub).ext, Head(sub).files), Tail(sub))

RECURSIVE GetFilesByExtension(_, _, _, _)
RECURSIVE ScanSubfolders(_, _, _, _, _)

\* the second loop: every directory of the listing is discovered in turn
ScanSubfolders(f, listing, rec, order, d) ==
    IF listing = <<>> THEN d
    ELSE LET item == Head(listing)
         IN  ScanSubfolders(f, Tail(listing), rec, order,
                 IF IsDir(f, item)
                 THEN DictMerge(d, GetFilesByExtension(f, item, rec, order))
                 ELSE d)

\* a variant that descends whatever the flag says
GetFilesDescending(f, dir, rec, order) ==
    ScanSubfolders(f, IterDir(f, dir, order), TRUE, order,
                   ScanFiles(f, IterDir(f, dir, order), <<>>))

GetFilesByExtension(f, dir, rec, order) ==
    LET here == ScanFiles(f, IterDir(f, dir, order), <<>>)
    IN  IF rec
        THEN ScanSubfolders(f, IterDir(f, dir, order), rec, order, here)
        ELSE here

\* list.sort() on a list of paths (insertion into an ordered list)
RECURSIVE Insert(_, _)
Insert(p, sorted) ==
    IF sorted = <<>> THEN <<p>>
    ELSE IF PathLess(p, Head(sorted)) THEN <<p>> \o sorted
    ELSE <<Head(sorted)>> \o Insert(p, Tail(sorted))

\* a variant that leaves the list in discovery order
Unsorted(files) == files

RECURSIVE Sort(_)
Sort(files) ==
    IF files = <<>> THEN <<>> ELSE Insert(Head(files), Sort(Tail(files)))

(***************************************************************************)
(* State                                                                   *)
(***************************************************************************)
VARIABLES
    folder_path,      \* self.folder_path
    naming_patterns,  \* self.naming_patterns
    default_pattern,  \* self.default_pattern
    fs,               \* the file system
    pc,               \* "idle", "loop" (inside organize_files), "done", "raised"
    source_folder,    \* organize_files: the argument source_folder
    recursive,        \* organize_files: the argument recursive
    move,             \* organize_files: the argument move
    files_by_ext,     \* organize_files: the discovered groups
    g,                \* organize_files: position of the outer loop
    i,                \* organize_files: position of the inner loop, from 1
    pattern,          \* organize_files: the pattern of the current group
    counts,           \* organize_files: the counters
    result,           \* the value organize_files returned, once pc = "done"
    out,              \* the lines organize_files printed: the kind of line,
                      \* the paths of the operation it is about and, for an
                      \* error, the exception
    fs0               \* the file system when organize_files was called

vars == <<folder_path, naming_patterns, default_pattern, fs, pc, source_folder,
          recursive, move, files_by_ext, g, i, pattern, counts, result, out, fs0>>

config == <<folder_path, naming_patterns, default_pattern>>
locals == <<source_folder, recursive, move, files_by_ext, g, i, pattern, counts>>

EmptyDict == [key \in {} |-> 0]

\* __init__: the target directory is created when it does not exist; no
\* pattern is registered and the default pattern is "file_{:02d}"
Init ==
    /\ folder_path \in Targets
    /\ \E L \in Layouts : fs = MkdirParents(Tree(L), folder_path)
    /\ naming_patterns = EmptyDict
    /\ default_pattern = PatFile
    /\ pc = "idle"
    /\ source_folder = SourceRoot
    /\ recursive = FALSE
    /\ move = FALSE
    /\ files_by_ext = <<>>
    /\ g = 0
    /\ i = 0
    /\ pattern = PatFile
    /\ counts = EmptyDict
    /\ result = EmptyDict
    /\ out = <<>>
    /\ fs0 = fs

(***************************************************************************)
(* set_naming_pattern, set_default_pattern                                 *)
(***************************************************************************)
\* a variant that keeps the case of the extension
NormaliseKeepingCase(extension) == LStripDots(extension)

\* extension.lstrip('.') followed by .lower()
NormaliseExtension(extension) == Lower(LStripDots(extension))

\* d[key] = value
DictSet(d, key, value) ==
    [k \in DOMAIN d \cup {key} |-> IF k = key THEN value ELSE d[k]]

SetNamingPattern(extension, pat) ==
    /\ pc = "idle"
    /\ naming_patterns' =
           DictSet(naming_patterns, NormaliseExtension(extension), pat)
    /\ UNCHANGED <<folder_path, default_pattern, fs, pc, locals, result, out, fs0>>

SetDefaultPattern(pat) ==
    /\ pc = "idle"
    /\ default_pattern' = pat
    /\ UNCHANGED <<folder_path, naming_patterns, fs, pc, locals, result, out, fs0>>

(***************************************************************************)
(* organize_files                                                          *)
(***************************************************************************)
\* self.naming_patterns.get(ext, self.default_pattern)
LookupPattern(patterns, default, ext) ==
    IF ext \in DOMAIN patterns THEN patterns[ext] ELSE default

\* pattern.format(i) + source_path.suffix, under self.folder_path
NewPath(folder, pat, n, source_path) ==
    Join(folder, Format(pat, n) \o Suffix(Name(source_path)))

\* The outcome of a copy or move: whether it returned, the exception it
\* raised otherwise, and the file system it leaves.
Raised(f, why) == [ok |-> FALSE, why |-> why, fs |-> f]
Returned(f)    == [ok |-> TRUE, why |-> "", fs |-> f]

\* a variant of copy2 that refuses to replace an existing destination
ShutilCopy2Exclusive(f, src, dst, fault) ==
    IF fault THEN Raised(f, "OSError")
    ELSE IF ~IsFile(f, src) THEN Raised(f, "FileNotFoundError")
    ELSE IF Exists(f, dst) THEN Raised(f, "FileExistsError")
    ELSE Returned(Put(f, dst, f[src]))

\* shutil.copy2(src, dst): a destination that is a directory receives the
\* file under the source's name; SameFileError when source and destination
\* are the same file; an existing destination file is replaced.  `fault` is
\* a failure of the underlying call (permission denied, I/O error), which
\* leaves the file system as it was.
ShutilCopy2(f, src, dst, fault) ==
    LET real_dst == IF IsDir(f, dst) THEN Join(dst, Name(src)) ELSE dst
    IN  IF fault THEN Raised(f, "OSError")
        ELSE IF ~IsFile(f, src) THEN Raised(f, "FileNotFoundError")
        ELSE IF real_dst = src THEN Raised(f, "SameFileError")
        ELSE Returned(Put(f, real_dst, f[src]))

\* shutil.move(src, dst): inside a destination directory the name must be
\* free (shutil.Error otherwise); os.rename replaces an existing destination
\* file and does nothing when source and destination are the same path.
ShutilMove(f, src, dst, fault) ==
    LET real_dst == IF IsDir(f, dst) THEN Join(dst, Name(src)) ELSE dst
    IN  IF fault THEN Raised(f, "OSError")
        ELSE IF ~IsFile(f, src) THEN Raised(f, "FileNotFoundError")
        ELSE IF IsDir(f, dst) /\ Exists(f, real_dst) THEN Raised(f, "Error")
        ELSE IF real_dst = src THEN Returned(f)
        ELSE Returned(Put(Remove(f, src), real_dst, f[src]))

\* a variant that moves whatever the flag says
CopyOrMoveAlwaysMoving(f, src, dst, mv, fault) == ShutilMove(f, src, dst, fault)

\* if move: shutil.move(...) else: shutil.copy2(...)
CopyOrMove(f, src, dst, mv, fault) ==
    IF mv THEN ShutilMove(f, src, dst, fault) ELSE ShutilCopy2(f, src, dst, fault)

\* a variant that counts a file whether or not the call succeeded
CountEveryFile(c, ext, ok) ==
    DictSet(c, ext, (IF ext \in DOMAIN c THEN c[ext] ELSE 0) + 1)

\* counts[ext] = counts.get(ext, 0) + 1, reached only when the call succeeded
Count(c, ext, ok) ==
    IF ok THEN DictSet(c, ext, (IF ext \in DOMAIN c THEN c[ext] ELSE 0) + 1)
    ELSE c

\* the head of the outer loop for group k: files.sort() and the pattern
EnterGroup(d, k) == [d EXCEPT ![k].files = Sort(@)]

\* a variant that never takes the early return
SourceNeverMissing(f, src) == FALSE

\* if not source_folder.exists()
SourceMissing(f, src) == ~Exists(f, src)

\* lines 88-104: the existence check, discovery, and the head of the outer
\* loop for the first group (or the return when there is none)
OrganizeFiles(src, rec, mv, order) ==
    /\ pc = "idle"
    /\ source_folder' = src
    /\ recursive' = rec
    /\ move' = mv
    /\ fs0' = fs
    /\ UNCHANGED <<config, fs>>
    /\ i' = 1
    /\ IF SourceMissing(fs, src)
       THEN /\ out' = <<[kind |-> "NoFolder", src |-> src, dst |-> src,
                           why |-> ""]>>
            /\ result' = EmptyDict
            /\ pc' = "done"
            /\ UNCHANGED <<files_by_ext, g, pattern, counts>>
       ELSE LET d == GetFilesByExtension(fs, src, rec, order)
            IN  /\ counts' = EmptyDict
                /\ out' = <<>>
                /\ IF d = <<>>
                   THEN /\ files_by_ext' = d
                        /\ result' = EmptyDict
                        /\ pc' = "done"
                        /\ UNCHANGED <<g, pattern>>
                   ELSE /\ files_by_ext' = EnterGroup(d, 1)
                        /\ pattern' = LookupPattern(naming_patterns,
                                                    default_pattern, d[1].ext)
                        /\ g' = 1
                        /\ result' = result
                        /\ pc' = "loop"

\* a variant that reads the i-th file of the group from the directory as it
\* is now, where the code reads it from the list discovery returned
LiveSourcePath ==
    LET live  == GetFilesByExtension(fs, source_folder, recursive, "asc")
        k     == DictIndex(live, files_by_ext[g].ext)
        files == IF k = 0 THEN <<>> ELSE Sort(live[k].files)
    IN  IF i <= Len(files) THEN files[i] ELSE files_by_ext[g].files[i]

\* the file the inner loop is at
SourcePath == files_by_ext[g].files[i]

\* lines 107-124: one turn of the inner loop, then the next file, the head of
\* the outer loop for the next group, or the return.  The file name is
\* formatted before the try block, so a pattern that does not format raises
\* out of organize_files.
ProcessFile(fault) ==
    /\ pc = "loop"
    /\ UNCHANGED <<config, source_folder, recursive, move, fs0>>
    /\ IF FormatRaises(pattern)
       THEN /\ pc' = "raised"
            /\ UNCHANGED <<fs, files_by_ext, g, i, pattern, counts, result, out>>
       ELSE LET ext      == files_by_ext[g].ext
                new_path == NewPath(folder_path, pattern, i, SourcePath)
                op       == CopyOrMove(fs, SourcePath, new_path, move, fault)
                line     == [kind |-> IF ~op.ok THEN "Error"
                                       ELSE IF move THEN "Moved" ELSE "Copied",
                             src |-> SourcePath, dst |-> new_path,
                             why |-> op.why]
            IN  /\ fs' = op.fs
                /\ out' = Append(out, line)
                /\ counts' = Count(counts, ext, op.ok)
                /\ IF i < Len(files_by_ext[g].files)
                   THEN /\ i' = i + 1
                        /\ UNCHANGED <<files_by_ext, g, pattern, pc, result>>
                   ELSE IF g < Len(files_by_ext)
                   THEN /\ files_by_ext' = EnterGroup(files_by_ext, g + 1)
                        /\ pattern' = LookupPattern(naming_patterns, default_pattern,
                                                    files_by_ext[g + 1].ext)
                        /\ g' = g + 1
                        /\ i' = 1
                        /\ UNCHANGED <<pc, result>>
                   ELSE /\ pc' = "done"
                        /\ result' = counts'
                        /\ UNCHANGED <<files_by_ext, g, i, pattern>>

Next ==
    \/ \E extension \in ExtensionArgs, pat \in Patterns :
           SetNamingPattern(extension, pat)
    \/ \E pat \in Patterns : SetDefaultPattern(pat)
    \/ \E src \in {SourceRoot, MissingRoot}, rec \in BOOLEAN, mv \in BOOLEAN,
          order \in {"asc", "desc"} :
           OrganizeFiles(src, rec, mv, order)
    \/ \E fault \in BOOLEAN : ProcessFile(fault)

Spec == Init /\ [][Next]_vars

(***************************************************************************)
(* What a run is measured against: the tree as it was when organize_files  *)
(* was called, read directly rather than through discovery                 *)
(***************************************************************************)
Range(seq) == {seq[k] : k \in 1..Len(seq)}

\* organize_files was called on a source root that exists
Organizing == pc # "idle" /\ Exists(fs0, source_folder)

\* the regular files below root, and those that are its direct children
FilesBelow(f, root) ==
    {p \in DOMAIN f : /\ IsFile(f, p)
                      /\ Len(p) > Len(root)
                      /\ SubSeq(p, 1, Len(root)) = root}
FilesIn(f, root) == {p \in DOMAIN f : IsFile(f, p) /\ Parent(p) = root}

\* the files a run has to process
Expected ==
    IF recursive THEN FilesBelow(fs0, source_folder)
    ELSE FilesIn(fs0, source_folder)

\* the extension of a path as written, without its separator, and lower-cased
WrittenExt(p) ==
    IF Suffix(Name(p)) = <<>> THEN <<>> ELSE Tail(Suffix(Name(p)))
LowerExt(p) == Lower(WrittenExt(p))

\* the expected files that share the extension group of p
GroupOf(p) == {q \in Expected : LowerExt(q) = LowerExt(p)}

\* the 1-based position of p in its group, by path order and by the order of
\* the full path strings
Rank(p)    == 1 + Cardinality({q \in GroupOf(p) : PathLess(q, p)})
StrRank(p) == 1 + Cardinality({q \in GroupOf(p) : StrLess(PathStr(q), PathStr(p))})

\* every path discovery listed, and the places where p is listed
Listed == UNION {Range(files_by_ext[k].files) : k \in 1..Len(files_by_ext)}
Places(p) ==
    UNION {{<<k, j>> : j \in {n \in 1..Len(files_by_ext[k].files) :
                                  files_by_ext[k].files[n] = p}} :
           k \in 1..Len(files_by_ext)}

\* the printed lines about a file, and those that report a success
FileLines == {k \in 1..Len(out) : out[k].kind # "NoFolder"}
Successes == {k \in FileLines : out[k].kind \in {"Moved", "Copied"}}
Failures  == {k \in FileLines : out[k].kind = "Error"}

(***************************************************************************)
(* C4                                                                      *)
(***************************************************************************)
\* C4: when the source root does not exist, organize_files prints the
\* condition and returns an empty map at once: it never raises, and the file
\* system, the target directory included, is as it was.
C4_MissingSource ==
    (pc # "idle" /\ ~Exists(fs0, source_folder)) =>
        /\ pc = "done"
        /\ result = EmptyDict
        /\ fs = fs0
        /\ Len(out) = 1 /\ out[1].kind = "NoFolder" /\ out[1].src = source_folder

C4_Witness ==
    /\ pc = "done" /\ source_folder = MissingRoot
    /\ IsDir(fs, folder_path) /\ FilesIn(fs, SourceRoot) # {}

(***************************************************************************)
(* C5                                                                      *)
(***************************************************************************)
\* C5: with recursive set, every regular file below the source root is listed
\* exactly once, in the one group keyed by its lower-cased extension without
\* the separator, and no two groups share a key.
C5_ExactlyOnce ==
    (Organizing /\ recursive) =>
        /\ \A p \in FilesBelow(fs0, source_folder) :
              /\ Cardinality(Places(p)) = 1
              /\ \A pl \in Places(p) : files_by_ext[pl[1]].ext = LowerExt(p)
        /\ \A k1, k2 \in 1..Len(files_by_ext) :
              files_by_ext[k1].ext = files_by_ext[k2].ext => k1 = k2

C5_Witness ==
    /\ Organizing /\ recursive
    /\ \E k \in 1..Len(files_by_ext) :
          /\ files_by_ext[k].ext = <<"j", "p", "g">>
          /\ Range(files_by_ext[k].files) = {FileB, FileY}
    /\ Special \in DOMAIN fs0

(***************************************************************************)
(* C6                                                                      *)
(***************************************************************************)
\* C6: without recursive, the files listed are the regular files that are
\* direct children of the source root and nothing else; every line printed is
\* about one of them, every counter belongs to the extension of one of them
\* and counts no more than there are, and every file of a subdirectory is
\* where and what it was.
C6_DirectChildrenOnly ==
    (Organizing /\ ~recursive) =>
        /\ Listed = FilesIn(fs0, source_folder)
        /\ \A k \in FileLines : Parent(out[k].src) = source_folder
        /\ \A e \in DOMAIN counts :
              /\ \E p \in FilesIn(fs0, source_folder) : LowerExt(p) = e
              /\ counts[e] <= Cardinality({p \in FilesIn(fs0, source_folder) :
                                              LowerExt(p) = e})
        /\ \A p \in FilesBelow(fs0, source_folder) \ FilesIn(fs0, source_folder) :
              IsFile(fs, p) /\ fs[p] = fs0[p]

C6_Witness ==
    /\ Organizing /\ ~recursive /\ pc = "done"
    /\ FileX \in DOMAIN fs0 /\ FileA \in DOMAIN fs0
    /\ Successes # {}

(***************************************************************************)
(* C8                                                                      *)
(***************************************************************************)
\* C8: the counters, and the map returned, hold for each extension the number
\* of files of its group whose copy or move succeeded: an extension has an
\* entry exactly when one of its files succeeded.
SucceededOf(e) == {k \in Successes : LowerExt(out[k].src) = e}

CountsSuccesses(c) ==
    /\ DOMAIN c = {LowerExt(out[k].src) : k \in Successes}
    /\ \A e \in DOMAIN c : c[e] = Cardinality(SucceededOf(e))

C8_ResultCountsSuccesses ==
    Organizing => /\ CountsSuccesses(counts)
                  /\ pc = "done" => result = counts

C8_Witness ==
    /\ Organizing /\ pc = "done"
    /\ \E k \in Failures : LowerExt(out[k].src) = <<"j", "p", "g">>
    /\ DOMAIN result = {<<"t", "x", "t">>}
    /\ result[<<"t", "x", "t">>] = 2

(***************************************************************************)
(* C10                                                                     *)
(***************************************************************************)
\* C10: the files organize_files works on are those that were in the tree
\* when it was called: the lists hold exactly those files from the first
\* copy or move on, every line printed is about one of them, its destination
\* carries the number the file has in that tree, and a run that returns has
\* printed one line for each of them.  A file the run created is never a
\* source.
C10_Snapshot ==
    Organizing =>
        /\ Listed = Expected
        /\ \A k \in FileLines :
              /\ out[k].src \in Expected
              /\ out[k].dst =
                    NewPath(folder_path,
                            LookupPattern(naming_patterns, default_pattern,
                                          LowerExt(out[k].src)),
                            Rank(out[k].src), out[k].src)
        /\ \A k1, k2 \in FileLines : out[k1].src = out[k2].src => k1 = k2
        /\ pc = "done" => {out[k].src : k \in FileLines} = Expected

C10_Witness ==
    /\ Organizing /\ pc = "done" /\ recursive
    /\ folder_path = SubFolder
    /\ \E p \in DOMAIN fs \ DOMAIN fs0 : p \in FilesBelow(fs, source_folder)
    /\ Cardinality(Successes) >= 2

(***************************************************************************)
(* C1                                                                      *)
(***************************************************************************)
\* C1: a failure on one file never escapes organize_files and never ends the
\* batch: no run raises, and a run that returns has printed a line for every
\* file it had to process, the failed ones included.
C1_FailureNeverEscapes ==
    /\ pc # "raised"
    /\ (Organizing /\ pc = "done") =>
           {out[k].src : k \in FileLines} = Expected

(***************************************************************************)
(* C2                                                                      *)
(***************************************************************************)
\* the destination the operation on the current file is given, for number n
Destination(n) ==
    Join(folder_path, Format(pattern, n) \o Suffix(Name(SourcePath)))

\* the j-th file of the current group is the j-th of its group by path order
CurrentGroupRanked ==
    /\ i \in 1..Len(files_by_ext[g].files)
    /\ \A j \in 1..Len(files_by_ext[g].files) :
          Rank(files_by_ext[g].files[j]) = j

\* C2 as stated: inside the loop the j-th file of the current group is the
\* j-th of its group in ascending order of the full path strings.
C2_OrderedByPathString ==
    pc = "loop" =>
        \A j \in 1..Len(files_by_ext[g].files) :
            StrRank(files_by_ext[g].files[j]) = j

\* C2, amended: inside the loop the j-th file of the current group is the
\* j-th of its group in ascending order of the paths compared component by
\* component, so the numbers given out are 1..len(group) in that order
\* whatever order the directory listing had; and a step whose copy or move
\* succeeds leaves the content of the i-th file in the target directory
\* under pattern.format(i) followed by the file's extension as written.
C2_Numbering ==
    /\ [](pc = "loop" => CurrentGroupRanked)
    /\ [][(pc = "loop" /\ Len(out') > Len(out)) =>
            /\ out'[Len(out')].src = SourcePath
            /\ out'[Len(out')].dst = Destination(i)
            /\ out'[Len(out')].kind # "Error" =>
                  /\ IsFile(fs', Destination(i))
                  /\ fs'[Destination(i)].data = fs[SourcePath].data
                  /\ Parent(Destination(i)) = folder_path
         ]_vars

\* x.txt of the subfolder is numbered before a.txt of the root, and the two
\* arrive as file_01.txt and file_02.txt
C2_Witness ==
    /\ Organizing /\ pc = "done" /\ recursive
    /\ Len(out) = 2
    /\ out[1].kind = "Copied" /\ out[1].src = FileX
    /\ out[1].dst = << <<"t">>,
                       <<"f", "i", "l", "e", "_", "0", "1", ".", "t", "x", "t">> >>
    /\ out[2].kind = "Copied" /\ out[2].src = FileA
    /\ out[2].dst = << <<"t">>,
                       <<"f", "i", "l", "e", "_", "0", "2", ".", "t", "x", "t">> >>
    /\ fs[out[1].dst].data = FileX /\ fs[out[2].dst].data = FileA

(***************************************************************************)
(* C3                                                                      *)
(***************************************************************************)
\* the paths a successful operation of the run wrote to
Written == {out[k].dst : k \in Successes}

\* C3 as stated: a copying run leaves every discovered file where and what it
\* was, and after a moving run no file whose move succeeded is at its
\* original path.
C3_SourcesKeptOrGone ==
    (Organizing /\ pc = "done") =>
        /\ ~move => \A p \in Expected : IsFile(fs, p) /\ fs[p] = fs0[p]
        /\ move => \A k \in Successes : ~Exists(fs, out[k].src)

\* C3, amended: the same, for every discovered file whose path no successful
\* operation of the run wrote to.
C3_SourcesKeptOrGoneUnlessWritten ==
    Organizing =>
        /\ ~move => \A p \in Expected \ Written :
                       IsFile(fs, p) /\ fs[p] = fs0[p]
        /\ move => \A k \in Successes :
                       out[k].src \notin Written => ~Exists(fs, out[k].src)

\* a copying run into the source root itself that wrote next to its sources
C3_Witness ==
    /\ Organizing /\ pc = "done" /\ ~move
    /\ folder_path = source_folder
    /\ Cardinality(Successes) >= 2
    /\ Expected \ Written # {}

(***************************************************************************)
(* C7                                                                      *)
(***************************************************************************)
\* the pattern organize_files applies to a file whose extension, as written
\* and without its separator, is e
Applied(e) == LookupPattern(naming_patterns, default_pattern, Lower(e))

\* the extensions files are written with
WrittenExts == {WrittenExt(p) : p \in CandidateFiles}

\* an extension argument with one leading separator stripped
StripOne(extension) ==
    IF extension # <<>> /\ Head(extension) = "." THEN Tail(extension)
    ELSE extension

\* what the setters do to the applied pattern, when `norm` is
\* the normalisation of the extension argument
LookupFollows(norm(_)) ==
    /\ \A x \in ExtensionArgs, p \in Patterns :
          SetNamingPattern(x, p) =>
              \A e \in WrittenExts :
                  Applied(e)' = IF Lower(e) = norm(x) THEN p ELSE Applied(e)
    /\ \A p \in Patterns :
          SetDefaultPattern(p) =>
              \A e \in WrittenExts :
                  Applied(e)' = IF Lower(e) \in DOMAIN naming_patterns
                                THEN Applied(e) ELSE p
    /\ pc # "idle" => UNCHANGED <<naming_patterns, default_pattern>>

\* the pattern of the current group is the one applied to each of its files
LoopAppliesLookup ==
    pc = "loop" =>
        \A p \in Range(files_by_ext[g].files) : pattern = Applied(WrittenExt(p))

ClaimedNormalisation(x) == Lower(StripOne(x))
ActualNormalisation(x)  == Lower(LStripDots(x))

\* C7 as stated: a set_naming_pattern call gives its pattern to the files
\* whose lower-cased extension equals the call's extension with one leading
\* separator stripped and lower-cased, and changes the pattern of no other
\* file; set_default_pattern changes the pattern of the files with no
\* registered extension; the loop applies the pattern so determined.
C7_LookupStrippingOneSeparator ==
    [][LookupFollows(ClaimedNormalisation)]_vars /\ []LoopAppliesLookup

\* C7, amended: the same with every leading separator of the call's
\* extension stripped.
C7_LookupStrippingAllSeparators ==
    [][LookupFollows(ActualNormalisation)]_vars /\ []LoopAppliesLookup

\* b.JPG and y.jpg are in one group, numbered with the pattern registered
\* last for jpg while the default is another
C7_Witness ==
    /\ pc = "loop"
    /\ Range(files_by_ext[g].files) = {FileB, FileY}
    /\ pattern = PatImage /\ default_pattern = PatConst

(***************************************************************************)
(* C9                                                                      *)
(***************************************************************************)
\* the lines about files given destination d, and the last of them
LinesTo(d) == {k \in FileLines : out[k].dst = d}
LastTo(d)  == CHOOSE k \in LinesTo(d) : \A n \in LinesTo(d) : n <= k

\* destinations given to two files or more, none of which met a failure of
\* the underlying call
Shared ==
    {d \in {out[k].dst : k \in FileLines} :
        /\ Cardinality(LinesTo(d)) >= 2
        /\ \A k \in LinesTo(d) : out[k].why # "OSError"}

OverwrittenSilently(d) ==
    /\ LinesTo(d) \subseteq Successes
    /\ IsFile(fs, d)
    /\ fs[d].data = out[LastTo(d)].src

\* C9 as stated: when two files are given the same destination, no failure
\* is reported for either and after the run the destination holds the
\* content of the file processed last.
C9_LaterOverwrites ==
    (Organizing /\ pc = "done") => \A d \in Shared : OverwrittenSilently(d)

\* C9, amended: the same, when the shared destination is not itself the path
\* of one of the discovered files.
C9_LaterOverwritesOutsideSources ==
    (Organizing /\ pc = "done") =>
        \A d \in Shared \ Expected : OverwrittenSilently(d)

C9_Witness ==
    /\ Organizing /\ pc = "done" /\ ~move
    /\ \E d \in Shared \ Expected :
          /\ Cardinality(LinesTo(d)) = 2
          /\ fs[d].data = FileA

====
